---- MODULE Spec2Model ----
(***************************************************************************)
(* Chat orchestration of the e-commerce assistant: ChatService over the   *)
(* SQL chat repository, the Gemini adapter and the ChatContext window.    *)
(*                                                                         *)
(* Text is a sequence of tokens (one-character strings or fixed literal   *)
(* fragments); an optional value is a sequence of length 0 or 1.          *)
(***************************************************************************)
EXTENDS Integers, Sequences, FiniteSets, TLC

\* ------------------------------------------------------------------ bounds
MaxReqs == 2
MaxClock == 1
MaxClears == 1
MaxMsgs == 3
MaxTs == 3
MaxN == 3
MaxCatalog == 2
MaxHist == 8
MaxText == 2
MaxLimit == 3
MaxCalls == 2

\* --------------------------------------------------------- program constants
RecentCount == 6
DefaultMaxMessages == 6

Reqs == 1..MaxReqs
Sessions == {<<"s", "1">>, <<"s", "2">>}
UserMessages == {<<"h", "i">>}
Whitespace == {" ", "\n", "\t"}

VARIABLES
    catalog,     \* rows of the products table, as Product entities
    store,       \* rows of the chat_memory table, in rowid order
    clock,       \* the last reading of the wall clock, datetime.now(timezone.utc)
    running,     \* the process_message coroutine holding the event loop
    request,     \* per request: the locals of ChatService.process_message
    deleted,     \* return values of the clear_session_history calls so far
    messages,    \* ChatContext.messages of the context under study
    max_messages,\* ChatContext.max_messages of the context under study
    recent,      \* result of ChatContext.get_recent_messages on it
    rendered,    \* result of ChatContext.format_for_prompt on it
    products,    \* argument of GeminiService.format_products_info
    products_text, \* its result
    history,     \* outcome of the last ChatService.get_session_history call
    turn_args,   \* arguments of a ChatMessage construction
    turn,        \* what the construction gave: the entity or the ValueError
    product,     \* a Product entity under study, or the ValueError of making it
    stock_calls, \* the reduce_stock / increase_stock / is_available calls on it
    product_rows,\* rows of the products table, in rowid order
    product_call \* the last ProductService call and how it ended

vars == <<catalog, store, clock, running, request, deleted, history,
          messages, max_messages, recent, rendered, products, products_text,
          turn_args, turn, product, stock_calls, product_rows, product_call>>
chatVars == <<catalog, store, clock, running, request, deleted, history>>
ctxVars == <<messages, max_messages, recent, rendered>>
fmtVars == <<products, products_text>>
msgVars == <<turn_args, turn>>
prodVars == <<product, stock_calls, product_rows, product_call>>

\* ------------------------------------------------------------ text helpers
Min(a, b) == IF a < b THEN a ELSE b
Max(a, b) == IF a > b THEN a ELSE b

Reverse(s) == [i \in 1..Len(s) |-> s[Len(s) + 1 - i]]

Take(s, n) == SubSeq(s, 1, Min(Len(s), n))

\* s.strip(): drop leading and trailing whitespace characters
RECURSIVE LStrip(_)
LStrip(s) == IF s /= <<>> /\ Head(s) \in Whitespace THEN LStrip(Tail(s)) ELSE s

Strip(s) == Reverse(LStrip(Reverse(LStrip(s))))

\* mutant: only the empty string counts as blank
IsBlank_EmptyOnly(s) == s = <<>>

\* "not v or not v.strip()"
IsBlank(s) == Strip(s) = <<>>

\* sep.join(lines)
RECURSIVE Join(_, _)
Join(lines, sep) ==
    IF lines = <<>> THEN <<>>
    ELSE IF Len(lines) = 1 THEN lines[1]
    ELSE lines[1] \o sep \o Join(Tail(lines), sep)

\* seq[start:] with Python's index normalisation
PySliceFrom(s, start) ==
    LET from == IF start < 0 THEN Max(Len(s) + start, 0) ELSE Min(start, Len(s))
    IN  SubSeq(s, from + 1, Len(s))

\* mutant: a turn goes in front of the turns with its timestamp
RECURSIVE InsertByTimestamp_Unstable(_, _)
InsertByTimestamp_Unstable(sorted, m) ==
    IF sorted = <<>> THEN <<m>>
    ELSE IF sorted[Len(sorted)].timestamp < m.timestamp THEN Append(sorted, m)
    ELSE Append(InsertByTimestamp_Unstable(SubSeq(sorted, 1, Len(sorted) - 1), m),
                sorted[Len(sorted)])

\* sorted(seq, key=lambda m: m.timestamp): stable, ascending
RECURSIVE InsertByTimestamp(_, _)
InsertByTimestamp(sorted, m) ==
    IF sorted = <<>> THEN <<m>>
    ELSE IF sorted[Len(sorted)].timestamp <= m.timestamp THEN Append(sorted, m)
    ELSE Append(InsertByTimestamp(SubSeq(sorted, 1, Len(sorted) - 1), m),
                sorted[Len(sorted)])

\* mutant: the slice is returned in the order it came in
SortedByTimestamp_Unsorted(s) == s

RECURSIVE SortedByTimestamp(_)
SortedByTimestamp(s) ==
    IF s = <<>> THEN <<>>
    ELSE InsertByTimestamp(SortedByTimestamp(SubSeq(s, 1, Len(s) - 1)), s[Len(s)])

\* ---------------------------------------------------------------- exceptions
\* an exception is its type and its message; str(e) is the message
Exception(type, message) == [type |-> type, message |-> message]

Str(e) == e.message

\* ChatServiceError.__init__: "if message:" puts the prefix before it
ChatServiceError(message) ==
    Exception("ChatServiceError",
              IF message /= <<>> THEN <<"Error en el servicio de chat: ">> \o message
              ELSE <<"Error en el servicio de chat">>)

\* what a repository call can raise: the driver's error
StorageFailures == {Exception("OperationalError", <<"d", "b">>)}

\* --------------------------------------------------------------- ChatMessage
\* mutant: the role is not looked at
ChatMessagePostInit_AnyRole(session_id, role, message) ==
    IF IsBlank(session_id) THEN "session_id no puede estar vacio"
    ELSE IF IsBlank(message) THEN "message no puede estar vacio"
    ELSE "ok"

\* ChatMessage.__post_init__: "ok" or the ValueError it raises
ChatMessagePostInit(session_id, role, message) ==
    IF IsBlank(session_id) THEN "session_id no puede estar vacio"
    ELSE IF IsBlank(message) THEN "message no puede estar vacio"
    ELSE IF role \notin {"user", "assistant"} THEN "role debe ser 'user' o 'assistant'"
    ELSE "ok"

ChatMessage(id, session_id, role, message, timestamp, tzinfo) ==
    [id |-> id, session_id |-> session_id, role |-> role, message |-> message,
     timestamp |-> timestamp, tzinfo |-> tzinfo]

\* mutant: the entity is made without the checks of __post_init__
NewChatMessage_Unchecked(id, session_id, role, message, timestamp, tzinfo) ==
    [raised |-> <<>>,
     entity |-> <<ChatMessage(id, session_id, role, message, timestamp, tzinfo)>>]

\* ChatMessage(...) as the caller sees it: the entity, or the ValueError of
\* __post_init__ and no entity
NewChatMessage(id, session_id, role, message, timestamp, tzinfo) ==
    LET check == ChatMessagePostInit(session_id, role, message)
    IN  IF check = "ok"
        THEN [raised |-> <<>>,
              entity |-> <<ChatMessage(id, session_id, role, message, timestamp, tzinfo)>>]
        ELSE [raised |-> <<Exception("ValueError", <<check>>)>>, entity |-> <<>>]

is_from_user(m) == m.role = "user"

is_from_assistant(m) == m.role = "assistant"

\* --------------------------------------------------------------- ChatContext
\* mutant: the turns are sorted first and the slice is taken from the result
get_recent_messages_SortFirst(msgs, maxm) ==
    LET slice == PySliceFrom(SortedByTimestamp(msgs), 0 - maxm)
    IN  slice

\* ChatContext.get_recent_messages: the slice messages[-max_messages:], sorted
get_recent_messages(msgs, maxm) ==
    LET slice == PySliceFrom(msgs, 0 - maxm)
    IN  IF Len(slice) = 0 THEN slice ELSE SortedByTimestamp(slice)

\* mutant: every line ends with a newline
format_for_prompt_TrailingNewline(msgs, maxm) ==
    LET rm == get_recent_messages(msgs, maxm)
        lines == [i \in 1..Len(rm) |->
                    <<IF is_from_user(rm[i]) THEN "Usuario" ELSE "Asistente", ": ">>
                    \o rm[i].message \o <<"\n">>]
    IN  Join(lines, <<>>)

format_for_prompt(msgs, maxm) ==
    LET rm == get_recent_messages(msgs, maxm)
        lines == [i \in 1..Len(rm) |->
                    <<IF is_from_user(rm[i]) THEN "Usuario" ELSE "Asistente", ": ">>
                    \o rm[i].message]
    IN  Join(lines, <<"\n">>)

\* ------------------------------------------------------------- GeminiService
NoProductsMarker == <<"No hay productos disponibles en este momento.">>
NoMessagesMarker == <<"No hay mensajes previos.">>
Placeholder == <<"No se pudo generar una respuesta.">>
PromptProductsHeader == "Eres un asistente virtual experto en ventas de zapatos ... PRODUCTOS DISPONIBLES:\n"
PromptContextHeader == "\n\nINSTRUCCIONES: ... CONVERSACION ANTERIOR:\n"
PromptUserCue == "\n\nUsuario: "
PromptAssistantCue == "\n\nAsistente:\n"

ProductAttrs == {"name", "brand", "price", "stock"}

\* f"{price:.2f}" of a price held in thousandths (no input sits on an exact half cent)
Fmt2f(price) ==
    LET cents == (price + 5) \div 10
    IN  <<ToString(cents \div 100), ".", ToString((cents % 100) \div 10),
          ToString(cents % 10)>>

\* getattr(p, attr, default)
GetAttr(p, attr, default) == IF attr \in p.attrs THEN p[attr] ELSE default

\* mutant: brand and name change places in the line
ProductLine_BrandFirst(p) ==
    <<"- ">> \o p.brand \o <<" | ">> \o p.name \o <<" | $">> \o Fmt2f(p.price)
    \o <<" | Stock: ", ToString(p.stock)>>

\* one iteration of the loop of format_products_info; the attribute accesses of
\* the f-string raise AttributeError unless p has all four attributes
ProductLine(p) ==
    IF ProductAttrs \subseteq p.attrs
    THEN <<"- ">> \o p.name \o <<" | ">> \o p.brand \o <<" | $">> \o Fmt2f(p.price)
         \o <<" | Stock: ", ToString(p.stock)>>
    ELSE <<"- ">> \o GetAttr(p, "name", <<"Desconocido">>) \o <<" | ">>
         \o GetAttr(p, "brand", <<"N/A">>) \o <<" | $">> \o Fmt2f(GetAttr(p, "price", 0))
         \o <<" | Stock: ", ToString(GetAttr(p, "stock", 0))>>

format_products_info(ps) ==
    IF ps = <<>> THEN NoProductsMarker
    ELSE Join([i \in 1..Len(ps) |-> ProductLine(ps[i])], <<"\n">>)

\* bool(context): ChatContext is a plain dataclass without __bool__ or __len__,
\* so only an absent context (None) is falsy
Truthy(context) == context /= <<>>

\* the prompt generate_response hands to _generate_text
BuildPrompt(user_message, ps, context) ==
    LET p_text == format_products_info(ps)
        context_text == IF Truthy(context)
                        THEN format_for_prompt(context[1].messages, context[1].max_messages)
                        ELSE NoMessagesMarker
    IN  <<PromptProductsHeader>> \o p_text \o <<PromptContextHeader>> \o context_text
        \o <<PromptUserCue>> \o user_message \o <<PromptAssistantCue>>

\* what the backend call can produce: an exception, a response without text,
\* or a response carrying text
BackendTexts == {<<>>, <<" ">>, <<" ", "o", "k">>}
BackendOutcomes ==
    {[kind |-> "error", text |-> <<"5", "0", "3">>], [kind |-> "absent", text |-> <<>>]}
    \cup {[kind |-> "text", text |-> t] : t \in BackendTexts}

\* mutant: only an absent text is replaced, an empty one is passed on
generate_text_KeepsEmpty(outcome) ==
    IF outcome.kind = "text" THEN outcome.text ELSE Placeholder

\* _generate_text: "response.text if response and response.text else ..."
generate_text(outcome) ==
    IF outcome.kind = "text" /\ outcome.text /= <<>> THEN outcome.text ELSE Placeholder

\* generate_response after the await: response.strip()
generate_response(outcome) == Strip(generate_text(outcome))

\* what generate_response raises when the backend call raises: _generate_text
\* wraps the backend's exception and generate_response wraps that one again
generate_response_raises(outcome) ==
    ChatServiceError(<<"Error al generar respuesta de Gemini: ">>
        \o Str(ChatServiceError(<<"Error en la API de Gemini: ">> \o outcome.text)))

\* --------------------------------------------------------- SQLChatRepository
RECURSIVE MaxId(_)
MaxId(rows) == IF rows = <<>> THEN 0 ELSE Max(rows[Len(rows)].id, MaxId(SubSeq(rows, 1, Len(rows) - 1)))

\* _entity_to_model + INSERT: the rowid is one more than the largest in the
\* table, the DateTime column keeps no tzinfo; r tags the writing request
entity_to_model(entity, rows, r) ==
    [id |-> MaxId(rows) + 1, session_id |-> entity.session_id, role |-> entity.role,
     message |-> entity.message, timestamp |-> entity.timestamp, req |-> r]

model_to_entity(row) ==
    ChatMessage(row.id, row.session_id, row.role, row.message, row.timestamp, "naive")

save_message(rows, entity, r) == Append(rows, entity_to_model(entity, rows, r))

\* mutant: the query has no filter on the session
SessionRows_AnySession(rows, session_id) == rows

\* filter(ChatMemoryModel.session_id == session_id)
SessionRows(rows, session_id) == SelectSeq(rows, LAMBDA m : m.session_id = session_id)

Range(s) == {s[i] : i \in 1..Len(s)}

\* ORDER BY timestamp DESC: every order of the rows with non-increasing
\* timestamps; the order among equal timestamps is not defined by the query
RECURSIVE DescOrders(_)
DescOrders(S) ==
    IF S = {} THEN {<<>>}
    ELSE UNION {{<<x>> \o t : t \in DescOrders(S \ {x})} :
                x \in {y \in S : \A z \in S : z.timestamp <= y.timestamp}}

\* mutant: the query orders ascending, so the LIMIT keeps the oldest rows
repo_get_recent_messages_Oldest(rows, session_id, count) ==
    {[i \in 1..Min(Len(o), count) |-> model_to_entity(Take(Reverse(o), count)[i])] :
        o \in DescOrders(Range(SessionRows(rows, session_id)))}

\* the possible results of get_recent_messages(session_id, count)
repo_get_recent_messages(rows, session_id, count) ==
    {[i \in 1..Min(Len(o), count) |-> model_to_entity(Reverse(Take(o, count))[i])] :
        o \in DescOrders(Range(SessionRows(rows, session_id)))}

\* the possible results of get_session_history(session_id, limit); limit is
\* optional, "if limit:" skips the LIMIT for None and for 0, and SQLite takes
\* a negative LIMIT as no limit
repo_get_session_history(rows, session_id, limit) ==
    LET ords == DescOrders(Range(SessionRows(rows, session_id)))
        lim(o) == IF limit /= <<>> /\ limit[1] > 0 THEN Take(o, limit[1]) ELSE o
    IN  {[i \in 1..Len(lim(o)) |-> model_to_entity(Reverse(lim(o))[i])] : o \in ords}

\* mutant: the rows of every session are deleted
delete_session_history_AllSessions(rows, session_id) == <<>>

delete_session_history(rows, session_id) ==
    SelectSeq(rows, LAMBDA m : m.session_id /= session_id)

\* -------------------------------------------------------------- input sets
Product(name, brand, price, stock) ==
    [attrs |-> ProductAttrs, name |-> name, brand |-> brand, price |-> price, stock |-> stock]

Pegasus == Product(<<"P", "e", "g">>, <<"N", "k">>, 120000, 5)

\* Product entities (price > 0, stock >= 0, name not blank) ...
ProductEntities ==
    {Product(n, <<"N", "k">>, pr, st) :
        n \in {<<"P", "e", "g">>, <<"A", " ", "1">>}, pr \in {120000, 59994, 1}, st \in {0, 5}}

\* ... and objects that lack some of the attributes (an ORM row, a dict)
ForeignObjects ==
    {[attrs |-> a, name |-> <<"X">>, brand |-> <<>>, price |-> 0, stock |-> 0] :
        a \in {{}, {"name"}}}

SeqsUpTo(S, n) == UNION {[1..k -> S] : k \in 0..n}

\* ChatMessage entities as a caller may hand them to ChatContext: ids by
\* position, timestamps in any order
ContextInputs ==
    {[i \in 1..Len(q) |->
        ChatMessage(i, <<"s", "1">>, q[i][2], <<"m", ToString(i)>>, q[i][1], "naive")] :
        q \in SeqsUpTo((1..MaxTs) \X {"user", "assistant"}, MaxMsgs)}

\* ------------------------------------------------------------------- state
IdleRequest ==
    [pc |-> "idle", session_id |-> <<>>, message |-> <<>>, products |-> <<>>,
     recent_history |-> <<>>, prompt |-> <<>>, gen_calls |-> 0, outcome |-> <<>>,
     ai_response |-> <<>>, user_msg |-> <<>>, assistant_msg |-> <<>>,
     response_dto |-> <<>>, error |-> "", cause |-> <<>>, raised |-> <<>>]

ChatIdle ==
    /\ catalog = <<>>
    /\ store = <<>>
    /\ clock = 0
    /\ running = 0
    /\ request = [r \in Reqs |-> IdleRequest]
    /\ deleted = <<>>
    /\ history = <<>>

CtxIdle ==
    messages = <<>> /\ max_messages = DefaultMaxMessages /\ recent = <<>> /\ rendered = <<>>

FmtIdle == products = <<>> /\ products_text = <<>>

MsgIdle == turn_args = <<>> /\ turn = <<>>

ProdIdle ==
    product = <<>> /\ stock_calls = <<>> /\ product_rows = <<>> /\ product_call = <<>>

Init ==
    /\ catalog = <<Pegasus>>
    /\ store = <<>>
    /\ clock = 0
    /\ running = 0
    /\ request = [r \in Reqs |-> IdleRequest]
    /\ deleted = <<>>
    /\ history = <<>>
    /\ CtxIdle
    /\ FmtIdle
    /\ MsgIdle
    /\ ProdIdle

\* ------------------------------------------------- ChatService.process_message
\* mutant: the clock can be read as any instant, also one before the last reading
Now_AnyInstant == 0..MaxClock

\* what datetime.now(timezone.utc) can return: no instant before the last reading
Now == clock..MaxClock

\* mutant: the exception caught is raised again as it is
Raise_Reraises(rq, step, e) ==
    [rq EXCEPT !.pc = "failed", !.error = step, !.cause = <<e>>, !.raised = <<e>>]

\* process_message lines 125-126: the exception e caught in the step named
\* is raised as ChatServiceError(str(e))
Raise(rq, step, e) ==
    [rq EXCEPT !.pc = "failed", !.error = step, !.cause = <<e>>,
               !.raised = <<ChatServiceError(Str(e))>>]

\* A request runs on the event loop, which it gives up only at the await of
\* the backend call; running is the request that holds the loop.  The steps
\* below are the stretches of process_message between two points at which
\* another request or a worker thread can act on the store or read the clock.

\* mutant: the user turn is persisted before the backend is invoked
ProcessMessage_SavesUserFirst(r, session_id, message) ==
    /\ running = 0
    /\ request[r].pc = "idle"
    /\ \A q \in Reqs : q < r => request[q].pc /= "idle"
    /\ LET rq == [request[r] EXCEPT !.session_id = session_id, !.message = message]
           user_msg == ChatMessage(<<>>, session_id, "user", message, clock, "utc")
       IN  \/ \E e \in StorageFailures :
                /\ request' = [request EXCEPT ![r] = Raise(rq, "get_all", e)]
                /\ running' = r
                /\ UNCHANGED store
           \/ \E h \in repo_get_recent_messages(store, session_id, RecentCount) :
                /\ request' = [request EXCEPT ![r] = [rq EXCEPT
                        !.pc = "generating",
                        !.products = catalog,
                        !.recent_history = h,
                        !.user_msg = <<user_msg>>,
                        !.prompt = BuildPrompt(message, catalog,
                                       <<[messages |-> h, max_messages |-> DefaultMaxMessages]>>),
                        !.gen_calls = rq.gen_calls + 1]]
                /\ store' = save_message(store, user_msg, r)
                /\ running' = 0
    /\ UNCHANGED <<catalog, clock, deleted, history, ctxVars, fmtVars, msgVars, prodVars>>

\* mutant: a request waits while another request of its session is under way
ProcessMessage_OnePerSession(r, session_id, message) ==
    /\ running = 0
    /\ request[r].pc = "idle"
    /\ \A q \in Reqs : q < r => request[q].pc /= "idle"
    /\ \A q \in Reqs : request[q].session_id = session_id => request[q].pc = "returned"
    /\ LET rq == [request[r] EXCEPT !.session_id = session_id, !.message = message]
       IN  \E h \in repo_get_recent_messages(store, session_id, RecentCount) :
                /\ request' = [request EXCEPT ![r] = [rq EXCEPT
                        !.pc = "generating",
                        !.products = catalog,
                        !.recent_history = h,
                        !.prompt = BuildPrompt(message, catalog,
                                       <<[messages |-> h, max_messages |-> DefaultMaxMessages]>>),
                        !.gen_calls = rq.gen_calls + 1]]
                /\ running' = 0
    /\ UNCHANGED <<catalog, store, clock, deleted, history, ctxVars, fmtVars, msgVars, prodVars>>

\* mutant: the backend is invoked before the recent history is read
ProcessMessage_CallsBeforeHistory(r, session_id, message) ==
    /\ running = 0
    /\ request[r].pc = "idle"
    /\ \A q \in Reqs : q < r => request[q].pc /= "idle"
    /\ LET rq == [request[r] EXCEPT !.session_id = session_id, !.message = message]
       IN  \/ \E e \in StorageFailures :
                /\ request' = [request EXCEPT ![r] = Raise(rq, "get_all", e)]
                /\ running' = r
           \/ \E e \in StorageFailures :
                /\ request' = [request EXCEPT ![r] =
                        Raise([rq EXCEPT !.products = catalog,
                                         !.gen_calls = rq.gen_calls + 1],
                              "get_recent_messages", e)]
                /\ running' = r
           \/ \E h \in repo_get_recent_messages(store, session_id, RecentCount) :
                /\ request' = [request EXCEPT ![r] = [rq EXCEPT
                        !.pc = "generating",
                        !.products = catalog,
                        !.recent_history = h,
                        !.prompt = BuildPrompt(message, catalog,
                                       <<[messages |-> h, max_messages |-> DefaultMaxMessages]>>),
                        !.gen_calls = rq.gen_calls + 1]]
                /\ running' = 0
    /\ UNCHANGED <<catalog, store, clock, deleted, history, ctxVars, fmtVars, msgVars, prodVars>>

\* process_message lines 76-93 up to the await: the request reads the catalog
\* and the recent history (either read may raise), builds the context and the
\* prompt (gemini_service lines 56-84) and invokes the backend
ProcessMessage(r, session_id, message) ==
    /\ running = 0
    /\ request[r].pc = "idle"
    /\ \A q \in Reqs : q < r => request[q].pc /= "idle"
    /\ LET rq == [request[r] EXCEPT !.session_id = session_id, !.message = message]
       IN  \/ \E e \in StorageFailures :
                /\ request' = [request EXCEPT ![r] = Raise(rq, "get_all", e)]
                /\ running' = r
           \/ \E e \in StorageFailures :
                /\ request' = [request EXCEPT ![r] =
                        Raise([rq EXCEPT !.products = catalog], "get_recent_messages", e)]
                /\ running' = r
           \/ \E h \in repo_get_recent_messages(store, session_id, RecentCount) :
                /\ request' = [request EXCEPT ![r] = [rq EXCEPT
                        !.pc = "generating",
                        !.products = catalog,
                        !.recent_history = h,
                        !.prompt = BuildPrompt(message, catalog,
                                       <<[messages |-> h, max_messages |-> DefaultMaxMessages]>>),
                        !.gen_calls = rq.gen_calls + 1]]
                /\ running' = 0
    /\ UNCHANGED <<catalog, store, clock, deleted, history, ctxVars, fmtVars, msgVars, prodVars>>

\* mutant: a failed backend call is tried once more
GenerateContentFails_Retries(r, outcome) ==
    /\ running = 0
    /\ request[r].pc = "generating"
    /\ outcome.kind = "error"
    /\ IF request[r].gen_calls < 2
       THEN request' = [request EXCEPT ![r].gen_calls = request[r].gen_calls + 1]
            /\ running' = 0
       ELSE request' = [request EXCEPT ![r] =
                        Raise([request[r] EXCEPT !.outcome = <<outcome>>], "generation",
                              generate_response_raises(outcome))]
            /\ running' = r
    /\ UNCHANGED <<catalog, store, clock, deleted, history, ctxVars, fmtVars, msgVars, prodVars>>

\* the backend call raises (gemini_service lines 115-116, 92-93; process_message
\* lines 125-126): the request resumes and fails
GenerateContentFails(r, outcome) ==
    /\ running = 0
    /\ request[r].pc = "generating"
    /\ outcome.kind = "error"
    /\ request' = [request EXCEPT ![r] =
            Raise([request[r] EXCEPT !.outcome = <<outcome>>], "generation",
                  generate_response_raises(outcome))]
    /\ running' = r
    /\ UNCHANGED <<catalog, store, clock, deleted, history, ctxVars, fmtVars, msgVars, prodVars>>

\* mutant: the assistant turn is written first
GenerateContent_SavesAssistant(r, outcome) ==
    /\ running = 0
    /\ request[r].pc = "generating"
    /\ outcome.kind /= "error"
    /\ \E now \in Now :
        LET ai_response == generate_response(outcome)
            rq == [request[r] EXCEPT !.outcome = <<outcome>>, !.ai_response = ai_response]
            assistant_msg == NewChatMessage(<<>>, rq.session_id, "assistant", ai_response,
                                            now, "utc")
        IN  /\ clock' = now
            /\ IF assistant_msg.raised /= <<>>
               THEN /\ request' = [request EXCEPT ![r] =
                                        Raise(rq, "validation", assistant_msg.raised[1])]
                    /\ UNCHANGED store
               ELSE /\ store' = save_message(store, assistant_msg.entity[1], r)
                    /\ request' = [request EXCEPT ![r] = [rq EXCEPT !.pc = "save_assistant",
                                                            !.user_msg = assistant_msg.entity]]
    /\ running' = r
    /\ UNCHANGED <<catalog, deleted, history, ctxVars, fmtVars, msgVars, prodVars>>

\* mutant: the request resumes on a thread of its own, whoever holds the loop
GenerateContent_OnThread(r, outcome) ==
    /\ request[r].pc = "generating"
    /\ outcome.kind /= "error"
    /\ \E now \in Now :
        LET rq == [request[r] EXCEPT !.outcome = <<outcome>>,
                                     !.ai_response = generate_response(outcome)]
            user_msg == NewChatMessage(<<>>, rq.session_id, "user", rq.message, now, "utc")
        IN  /\ clock' = now
            /\ IF user_msg.raised /= <<>>
               THEN /\ request' = [request EXCEPT ![r] =
                                        Raise(rq, "validation", user_msg.raised[1])]
                    /\ UNCHANGED store
               ELSE \/ \E e \in StorageFailures :
                        /\ request' = [request EXCEPT ![r] = Raise(rq, "save_message", e)]
                        /\ UNCHANGED store
                    \/ /\ store' = save_message(store, user_msg.entity[1], r)
                       /\ request' = [request EXCEPT ![r] = [rq EXCEPT !.pc = "save_assistant",
                                                               !.user_msg = user_msg.entity]]
    /\ running' = r
    /\ UNCHANGED <<catalog, deleted, history, ctxVars, fmtVars, msgVars, prodVars>>

\* the backend call returns (gemini_service lines 87-90, 113-114) and the
\* request resumes: the generated text is trimmed, and the user turn is built
\* and saved (process_message lines 95-103)
GenerateContent(r, outcome) ==
    /\ running = 0
    /\ request[r].pc = "generating"
    /\ outcome.kind /= "error"
    /\ \E now \in Now :
        LET rq == [request[r] EXCEPT !.outcome = <<outcome>>,
                                     !.ai_response = generate_response(outcome)]
            user_msg == NewChatMessage(<<>>, rq.session_id, "user", rq.message, now, "utc")
        IN  /\ clock' = now
            /\ IF user_msg.raised /= <<>>
               THEN /\ request' = [request EXCEPT ![r] =
                                        Raise(rq, "validation", user_msg.raised[1])]
                    /\ UNCHANGED store
               ELSE \/ \E e \in StorageFailures :
                        /\ request' = [request EXCEPT ![r] = Raise(rq, "save_message", e)]
                        /\ UNCHANGED store
                    \/ /\ store' = save_message(store, user_msg.entity[1], r)
                       /\ request' = [request EXCEPT ![r] = [rq EXCEPT !.pc = "save_assistant",
                                                               !.user_msg = user_msg.entity]]
    /\ running' = r
    /\ UNCHANGED <<catalog, deleted, history, ctxVars, fmtVars, msgVars, prodVars>>

\* process_message lines 105-123: the assistant turn is built and saved, and
\* the response is made
SaveAssistant(r) ==
    /\ running = r
    /\ request[r].pc = "save_assistant"
    /\ \E now \in Now :
        LET rq == request[r]
            assistant_msg == NewChatMessage(<<>>, rq.session_id, "assistant",
                                            rq.ai_response, now, "utc")
        IN  IF assistant_msg.raised /= <<>>
            THEN /\ clock' = now
                 /\ request' = [request EXCEPT ![r] =
                                    Raise(rq, "validation", assistant_msg.raised[1])]
                 /\ UNCHANGED store
            ELSE /\ clock' = now
                 /\ \/ \E e \in StorageFailures :
                        /\ request' = [request EXCEPT ![r] = Raise(rq, "save_message", e)]
                        /\ UNCHANGED store
                    \/ /\ store' = save_message(store, assistant_msg.entity[1], r)
                       /\ request' = [request EXCEPT
                            ![r].pc = "done",
                            ![r].assistant_msg = assistant_msg.entity,
                            ![r].response_dto =
                                <<[session_id |-> rq.session_id,
                                   user_message |-> rq.message,
                                   assistant_message |-> rq.ai_response,
                                   timestamp |-> assistant_msg.entity[1].timestamp,
                                   tzinfo |-> assistant_msg.entity[1].tzinfo]>>]
    /\ UNCHANGED <<catalog, running, deleted, history, ctxVars, fmtVars, msgVars, prodVars>>

\* process_message has returned or raised (lines 123, 126): the response or the
\* ChatServiceError is with the caller, the locals of the call are gone and
\* the event loop is free
Return(r) ==
    /\ running = r
    /\ request[r].pc \in {"done", "failed"}
    /\ request' = [request EXCEPT ![r] = [IdleRequest EXCEPT !.pc = "returned"]]
    /\ running' = 0
    /\ UNCHANGED <<catalog, store, clock, deleted, history, ctxVars, fmtVars, msgVars, prodVars>>

\* ChatHistoryDTO.model_validate(msg): the DTO has no session_id
ChatHistoryDTO(msg) ==
    [id |-> msg.id, role |-> msg.role, message |-> msg.message,
     timestamp |-> msg.timestamp, tzinfo |-> msg.tzinfo]

\* ChatService.get_session_history, served from a worker thread: the
\* repository's result as DTOs, or the repository's exception wrapped
GetSessionHistory(session_id, limit) ==
    /\ \/ \E h \in repo_get_session_history(store, session_id, limit) :
            history' = <<[session_id |-> session_id, limit |-> limit,
                          entities |-> h,
                          result |-> [i \in 1..Len(h) |-> ChatHistoryDTO(h[i])],
                          cause |-> <<>>, raised |-> <<>>]>>
       \/ \E e \in StorageFailures :
            history' = <<[session_id |-> session_id, limit |-> limit,
                          entities |-> <<>>, result |-> <<>>, cause |-> <<e>>,
                          raised |-> <<ChatServiceError(<<"Error al obtener historial: ">>
                                                        \o Str(e))>>]>>
    /\ UNCHANGED <<catalog, store, clock, running, request, deleted,
                   ctxVars, fmtVars, msgVars, prodVars>>

\* ChatService.clear_session_history, served from a worker thread
ClearSessionHistory(session_id) ==
    /\ deleted' = Append(deleted, [session_id |-> session_id,
                                   count |-> <<Len(SessionRows(store, session_id))>>,
                                   cause |-> <<>>, raised |-> <<>>])
    /\ store' = delete_session_history(store, session_id)
    /\ UNCHANGED <<catalog, clock, running, request, history, ctxVars, fmtVars, msgVars, prodVars>>

\* clear_session_history when the repository raises (lines 183-184): nothing
\* is committed and the exception is wrapped
ClearSessionHistoryFails(session_id) ==
    /\ \E e \in StorageFailures :
        deleted' = Append(deleted,
            [session_id |-> session_id, count |-> <<>>, cause |-> <<e>>,
             raised |-> <<ChatServiceError(<<"Error al limpiar historial: ">> \o Str(e))>>])
    /\ UNCHANGED <<catalog, store, clock, running, request, history,
                   ctxVars, fmtVars, msgVars, prodVars>>

\* the sessions a request can name: the store starts empty, so the sessions
\* are interchangeable until one is used and the first request's is fixed
SessionsOf(r) == IF r = 1 THEN {<<"s", "1">>} ELSE Sessions

Next ==
    \/ \E r \in Reqs : \E s \in SessionsOf(r), m \in UserMessages : ProcessMessage(r, s, m)
    \/ \E r \in Reqs, o \in BackendOutcomes : GenerateContentFails(r, o)
    \/ \E r \in Reqs, o \in BackendOutcomes : GenerateContent(r, o)
    \/ \E r \in Reqs : SaveAssistant(r)
    \/ \E r \in Reqs : Return(r)
    \/ Len(deleted) < MaxClears /\ \E s \in Sessions : ClearSessionHistory(s)

Spec == Init /\ [][Next]_vars

\* ------------------------------------------- process_message requests alone
NextChat ==
    \/ \E r \in Reqs : \E s \in SessionsOf(r), m \in UserMessages : ProcessMessage(r, s, m)
    \/ \E r \in Reqs, o \in BackendOutcomes : GenerateContentFails(r, o)
    \/ \E r \in Reqs, o \in BackendOutcomes : GenerateContent(r, o)
    \/ \E r \in Reqs : SaveAssistant(r)
    \/ \E r \in Reqs : Return(r)

SpecChat == Init /\ [][NextChat]_vars

\* ------------------------------ one request against a session with a history
\* a chat_memory table left by earlier requests: rowids in insertion order,
\* user and assistant turns alternating, timestamps never decreasing (equal
\* in pairs when tied); with mixed, the first two rows are of another session
HistoryStore(k, tied, mixed) ==
    [i \in 1..k |->
        [id |-> i,
         session_id |-> IF mixed /\ i <= 2 THEN <<"s", "2">> ELSE <<"s", "1">>,
         role |-> IF i % 2 = 1 THEN "user" ELSE "assistant",
         message |-> <<"m", ToString(i)>>,
         timestamp |-> IF tied THEN ((i + 1) \div 2) - k ELSE i - k,
         req |-> 0]]

InitHist ==
    /\ catalog = <<Pegasus>>
    /\ store \in {HistoryStore(k, tied, mixed) :
                    k \in 0..MaxHist, tied \in BOOLEAN, mixed \in BOOLEAN}
    /\ clock = 0
    /\ running = 0
    /\ request = [r \in Reqs |-> IdleRequest]
    /\ deleted = <<>>
    /\ history = <<>>
    /\ CtxIdle
    /\ FmtIdle
    /\ MsgIdle
    /\ ProdIdle

NextHist ==
    \/ \E s \in Sessions, m \in UserMessages : ProcessMessage(1, s, m)
    \/ \E o \in BackendOutcomes : GenerateContentFails(1, o)
    \/ \E o \in BackendOutcomes : GenerateContent(1, o)
    \/ SaveAssistant(1)
    \/ Return(1)
    \/ Len(deleted) < MaxClears /\ \E s \in Sessions : ClearSessionHistory(s)

SpecHist == InitHist /\ [][NextHist]_vars

\* ------------------------- the three operations of ChatService, one client
\* the limit argument of get_session_history: None or an int
Limits == {<<>>} \cup {<<n>> : n \in (0 - 1)..MaxLimit}

\* one process_message request with get_session_history (of the whole
\* session) and clear_session_history calls around and within it, from an
\* empty table
NextApi ==
    \/ \E s \in Sessions, m \in UserMessages : ProcessMessage(1, s, m)
    \/ \E o \in BackendOutcomes : GenerateContentFails(1, o)
    \/ \E o \in BackendOutcomes : GenerateContent(1, o)
    \/ SaveAssistant(1)
    \/ Return(1)
    \/ \E s \in Sessions : GetSessionHistory(s, <<>>)
    \/ Len(deleted) < MaxCalls /\ \E s \in Sessions : ClearSessionHistory(s)
    \/ Len(deleted) < MaxCalls /\ \E s \in Sessions : ClearSessionHistoryFails(s)

SpecApi == Init /\ [][NextApi]_vars

\* ------------------ get_session_history and clear_session_history on a table
InitQuery ==
    /\ catalog = <<Pegasus>>
    /\ store \in {HistoryStore(k, tied, mixed) :
                    k \in 0..(MaxLimit + 1), tied \in BOOLEAN, mixed \in BOOLEAN}
    /\ clock = 0
    /\ running = 0
    /\ request = [r \in Reqs |-> IdleRequest]
    /\ deleted = <<>>
    /\ history = <<>>
    /\ CtxIdle
    /\ FmtIdle
    /\ MsgIdle
    /\ ProdIdle

NextQuery ==
    \/ \E s \in Sessions, l \in Limits : GetSessionHistory(s, l)
    \/ Len(deleted) < MaxCalls /\ \E s \in Sessions : ClearSessionHistory(s)
    \/ Len(deleted) < MaxCalls /\ \E s \in Sessions : ClearSessionHistoryFails(s)

SpecQuery == InitQuery /\ [][NextQuery]_vars

\* ------- the three operations on a table that holds turns of two sessions
NextIso ==
    \/ \E s \in Sessions, m \in UserMessages : ProcessMessage(1, s, m)
    \/ \E o \in BackendOutcomes : GenerateContentFails(1, o)
    \/ \E o \in BackendOutcomes : GenerateContent(1, o)
    \/ SaveAssistant(1)
    \/ Return(1)
    \/ \E s \in Sessions : GetSessionHistory(s, <<>>)
    \/ Len(deleted) < MaxClears /\ \E s \in Sessions : ClearSessionHistory(s)

SpecIso == InitQuery /\ [][NextIso]_vars

\* ------------------------------------------ ChatContext on arbitrary inputs
InitCtx ==
    /\ ChatIdle
    /\ FmtIdle
    /\ MsgIdle
    /\ ProdIdle
    /\ messages \in ContextInputs
    /\ max_messages \in (0 - MaxN)..MaxN
    /\ recent = <<>>
    /\ rendered = <<>>

GetRecent ==
    /\ recent = <<>>
    /\ recent' = <<get_recent_messages(messages, max_messages)>>
    /\ UNCHANGED <<chatVars, fmtVars, msgVars, prodVars, messages, max_messages, rendered>>

FormatForPrompt ==
    /\ rendered = <<>>
    /\ rendered' = <<format_for_prompt(messages, max_messages)>>
    /\ UNCHANGED <<chatVars, fmtVars, msgVars, prodVars, messages, max_messages, recent>>

NextCtx == GetRecent \/ FormatForPrompt

SpecCtx == InitCtx /\ [][NextCtx]_vars

\* --------------------------------- format_products_info on arbitrary inputs
InitFmt ==
    /\ ChatIdle
    /\ CtxIdle
    /\ MsgIdle
    /\ ProdIdle
    /\ products \in SeqsUpTo(ProductEntities \cup ForeignObjects, MaxCatalog)
    /\ products_text = <<>>

FormatProductsInfo ==
    /\ products_text = <<>>
    /\ products_text' = <<format_products_info(products)>>
    /\ UNCHANGED <<chatVars, ctxVars, msgVars, prodVars, products>>

NextFmt == FormatProductsInfo

SpecFmt == InitFmt /\ [][NextFmt]_vars

\* ------------------------------------ ChatMessage(...) on arbitrary inputs
\* str values for session_id and message, and role values in and out of the
\* two the entity accepts
Texts == SeqsUpTo({"a", " ", "\n"}, MaxText)

Roles == {"user", "assistant", "system", "User", "", " "}

InitMsg ==
    /\ ChatIdle
    /\ CtxIdle
    /\ FmtIdle
    /\ ProdIdle
    /\ turn_args \in {<<[session_id |-> s, role |-> r, message |-> m]>> :
                        s \in Texts, r \in Roles, m \in Texts}
    /\ turn = <<>>

Construct ==
    /\ turn = <<>>
    /\ turn' = <<NewChatMessage(<<>>, turn_args[1].session_id, turn_args[1].role,
                                turn_args[1].message, 0, "utc")>>
    /\ UNCHANGED <<chatVars, ctxVars, fmtVars, prodVars, turn_args>>

NextMsg == Construct

SpecMsg == InitMsg /\ [][NextMsg]_vars

\* ------------------------------------------------------------------ Product
\* Product.__post_init__: "ok" or the ValueError it raises; price and stock
\* are optional values (None is <<>>)
ProductPostInit(name, price, stock) ==
    IF IsBlank(name) THEN "name no puede estar vacio"
    ELSE IF price = <<>> \/ price[1] <= 0 THEN "price debe ser mayor a 0"
    ELSE IF stock = <<>> \/ stock[1] < 0 THEN "stock no puede ser negativo"
    ELSE "ok"

ProductEntity(id, name, brand, price, stock) ==
    [id |-> id, name |-> name, brand |-> brand, price |-> price, stock |-> stock]

\* Product(...) as the caller sees it: the entity, or the ValueError of
\* __post_init__ and no entity
NewProduct(id, name, brand, price, stock) ==
    LET check == ProductPostInit(name, price, stock)
    IN  IF check = "ok"
        THEN [raised |-> <<>>,
              entity |-> <<ProductEntity(id, name, brand, price[1], stock[1])>>]
        ELSE [raised |-> <<Exception("ValueError", <<check>>)>>, entity |-> <<>>]

is_available(p) == p.stock > 0

\* mutant: the stock on hand is not compared with the quantity
reduce_stock_NoStockCheck(p, quantity) ==
    IF quantity <= 0
    THEN [raised |-> <<Exception("ValueError", <<"quantity debe ser positivo">>)>>,
          self |-> p]
    ELSE [raised |-> <<>>, self |-> [p EXCEPT !.stock = @ - quantity]]

\* Product.reduce_stock: the ValueError raised, if any, and the entity after
reduce_stock(p, quantity) ==
    IF quantity <= 0
    THEN [raised |-> <<Exception("ValueError", <<"quantity debe ser positivo">>)>>,
          self |-> p]
    ELSE IF quantity > p.stock
    THEN [raised |-> <<Exception("ValueError", <<"No hay suficiente stock">>)>>,
          self |-> p]
    ELSE [raised |-> <<>>, self |-> [p EXCEPT !.stock = @ - quantity]]

\* mutant: any quantity is added
increase_stock_AnyQuantity(p, quantity) ==
    [raised |-> <<>>, self |-> [p EXCEPT !.stock = @ + quantity]]

\* Product.increase_stock
increase_stock(p, quantity) ==
    IF quantity <= 0
    THEN [raised |-> <<Exception("ValueError", <<"quantity debe ser positivo">>)>>,
          self |-> p]
    ELSE [raised |-> <<>>, self |-> [p EXCEPT !.stock = @ + quantity]]

\* ------------------------------- a Product and calls of its stock methods
MaxStock == 3
MaxQty == 2

Names == {<<>>, <<" ">>, <<"P", "e", "g">>}

Prices == {<<>>, <<0 - 1>>, <<0>>, <<1>>}

Stocks == {<<>>} \cup {<<n>> : n \in (0 - 1)..MaxStock}

Quantities == (0 - 1)..MaxQty

InitStock ==
    /\ ChatIdle
    /\ CtxIdle
    /\ FmtIdle
    /\ MsgIdle
    /\ product \in {<<NewProduct(<<>>, n, <<"N", "k">>, pr, st)>> :
                        n \in Names, pr \in Prices, st \in Stocks}
    /\ stock_calls = <<>>
    /\ product_rows = <<>>
    /\ product_call = <<>>

StockCall(op, quantity, before, after, raised, result) ==
    [op |-> op, quantity |-> quantity, before |-> before, after |-> after,
     raised |-> raised, result |-> result]

ReduceStock(quantity) ==
    /\ product[1].entity /= <<>>
    /\ Len(stock_calls) < MaxCalls
    /\ LET p == product[1].entity[1]
           call == reduce_stock(p, quantity)
       IN  /\ product' = <<[product[1] EXCEPT !.entity = <<call.self>>]>>
           /\ stock_calls' = Append(stock_calls, StockCall("reduce_stock", quantity, p.stock,
                                         call.self.stock, call.raised, <<>>))
    /\ UNCHANGED <<chatVars, ctxVars, fmtVars, msgVars, product_rows, product_call>>

IncreaseStock(quantity) ==
    /\ product[1].entity /= <<>>
    /\ Len(stock_calls) < MaxCalls
    /\ product[1].entity[1].stock + quantity <= MaxStock
    /\ LET p == product[1].entity[1]
           call == increase_stock(p, quantity)
       IN  /\ product' = <<[product[1] EXCEPT !.entity = <<call.self>>]>>
           /\ stock_calls' = Append(stock_calls, StockCall("increase_stock", quantity, p.stock,
                                         call.self.stock, call.raised, <<>>))
    /\ UNCHANGED <<chatVars, ctxVars, fmtVars, msgVars, product_rows, product_call>>

IsAvailable ==
    /\ product[1].entity /= <<>>
    /\ Len(stock_calls) < MaxCalls
    /\ LET p == product[1].entity[1]
       IN  stock_calls' = Append(stock_calls, StockCall("is_available", 0, p.stock, p.stock,
                                                    <<>>, <<is_available(p)>>))
    /\ UNCHANGED <<chatVars, ctxVars, fmtVars, msgVars, product, product_rows, product_call>>

NextStock ==
    \/ \E q \in Quantities : ReduceStock(q)
    \/ \E q \in Quantities : IncreaseStock(q)
    \/ IsAvailable

SpecStock == InitStock /\ [][NextStock]_vars

\* ------------------------------------------------------ SQLProductRepository
ProductNotFoundError(product_id) ==
    Exception("ProductNotFoundError",
              <<"Producto con ID ", ToString(product_id), " no encontrado">>)

InvalidProductDataError(message) ==
    Exception("InvalidProductDataError",
              IF message /= <<>> THEN <<"Datos de producto invalidos: ">> \o message
              ELSE <<"Datos de producto invalidos">>)

\* _model_to_entity constructs a Product, so a row is read through __post_init__
product_model_to_entity(model) ==
    NewProduct(<<model.id>>, model.name, model.brand, <<model.price>>, <<model.stock>>).entity[1]

\* _entity_to_model and the flush: a row without id gets the rowid max + 1
product_entity_to_model(entity, rows) ==
    [id |-> IF entity.id = <<>> THEN MaxId(rows) + 1 ELSE entity.id[1],
     name |-> entity.name, brand |-> entity.brand, price |-> entity.price,
     stock |-> entity.stock]

RowsWithId(rows, product_id) == SelectSeq(rows, LAMBDA m : m.id = product_id)

\* mutant: an id that matches no row gives the first row of the table
product_get_by_id_FirstRow(rows, product_id) ==
    LET found == RowsWithId(rows, product_id)
    IN  IF found /= <<>> THEN <<product_model_to_entity(found[1])>>
        ELSE IF rows /= <<>> THEN <<product_model_to_entity(rows[1])>>
        ELSE <<>>

\* SQLProductRepository.get_by_id: the entity, or None
product_get_by_id(rows, product_id) ==
    LET found == RowsWithId(rows, product_id)
    IN  IF found /= <<>> THEN <<product_model_to_entity(found[1])>> ELSE <<>>

\* SQLProductRepository.save: the table after, the entity read back, or the
\* ProductNotFoundError of an update without row
product_save(rows, entity) ==
    IF entity.id /= <<>>
    THEN IF RowsWithId(rows, entity.id[1]) = <<>>
         THEN [rows |-> rows, raised |-> <<ProductNotFoundError(entity.id[1])>>,
               saved |-> <<>>]
         ELSE LET model == product_entity_to_model(entity, rows)
                  after == [i \in 1..Len(rows) |->
                              IF rows[i].id = model.id THEN model ELSE rows[i]]
              IN  [rows |-> after, raised |-> <<>>,
                   saved |-> <<product_model_to_entity(model)>>]
    ELSE LET model == product_entity_to_model(entity, rows)
         IN  [rows |-> Append(rows, model), raised |-> <<>>,
              saved |-> <<product_model_to_entity(model)>>]

\* mutant: True is returned and the row stays
product_delete_KeepsRow(rows, product_id) ==
    IF RowsWithId(rows, product_id) = <<>> THEN [rows |-> rows, success |-> FALSE]
    ELSE [rows |-> rows, success |-> TRUE]

\* SQLProductRepository.delete
product_delete(rows, product_id) ==
    IF RowsWithId(rows, product_id) = <<>> THEN [rows |-> rows, success |-> FALSE]
    ELSE [rows |-> SelectSeq(rows, LAMBDA m : m.id /= product_id), success |-> TRUE]

\* ------------------------------------------------------------ ProductService
\* ProductDTO.model_validate(entity)
ProductDTO(p) ==
    [id |-> p.id, name |-> p.name, brand |-> p.brand, price |-> p.price, stock |-> p.stock]

ServiceResult(rows, raised, result) == [rows |-> rows, raised |-> raised, result |-> result]

get_product_by_id(rows, product_id) ==
    LET found == product_get_by_id(rows, product_id)
    IN  IF found = <<>> THEN ServiceResult(rows, <<ProductNotFoundError(product_id)>>, <<>>)
        ELSE ServiceResult(rows, <<>>, <<ProductDTO(found[1])>>)

create_product(rows, product_dto) ==
    LET made == NewProduct(<<>>, product_dto.name, product_dto.brand,
                           <<product_dto.price>>, <<product_dto.stock>>)
    IN  IF made.raised /= <<>>
        THEN ServiceResult(rows, <<InvalidProductDataError(Str(made.raised[1]))>>, <<>>)
        ELSE LET s == product_save(rows, made.entity[1])
             IN  ServiceResult(s.rows, <<>>, <<ProductDTO(s.saved[1])>>)

update_product(rows, product_id, product_dto) ==
    IF product_get_by_id(rows, product_id) = <<>>
    THEN ServiceResult(rows, <<ProductNotFoundError(product_id)>>, <<>>)
    ELSE LET made == NewProduct(<<product_id>>, product_dto.name, product_dto.brand,
                                <<product_dto.price>>, <<product_dto.stock>>)
         IN  IF made.raised /= <<>>
             THEN ServiceResult(rows, <<InvalidProductDataError(Str(made.raised[1]))>>, <<>>)
             ELSE LET s == product_save(rows, made.entity[1])
                  IN  IF s.raised /= <<>> THEN ServiceResult(s.rows, s.raised, <<>>)
                      ELSE ServiceResult(s.rows, <<>>, <<ProductDTO(s.saved[1])>>)

delete_product(rows, product_id) ==
    IF product_get_by_id(rows, product_id) = <<>>
    THEN ServiceResult(rows, <<ProductNotFoundError(product_id)>>, <<>>)
    ELSE LET d == product_delete(rows, product_id)
         IN  ServiceResult(d.rows, <<>>, <<d.success>>)

\* --------------------------------- one client of ProductService on a table
MaxProducts == 2

ProductIds == 0..(MaxProducts + 1)

\* ProductDTO values that pass its validators (price > 0, stock >= 0); the
\* name is not validated there, and the id of a DTO is the caller's
ProductDTOs ==
    {[id |-> i, name |-> n, brand |-> <<"N", "k">>, price |-> 1, stock |-> st] :
        i \in {<<>>, <<MaxProducts + 1>>}, n \in {<<" ">>, <<"P", "e", "g">>},
        st \in {0, 2}}

InitProducts ==
    /\ ChatIdle
    /\ CtxIdle
    /\ FmtIdle
    /\ MsgIdle
    /\ ProdIdle

ProductCall(op, product_id, product_dto, call) ==
    /\ product_rows' = call.rows
    /\ product_call' = <<[op |-> op, product_id |-> product_id, product_dto |-> product_dto,
                          before |-> product_rows, raised |-> call.raised,
                          result |-> call.result]>>
    /\ UNCHANGED <<chatVars, ctxVars, fmtVars, msgVars, product, stock_calls>>

GetProductById(product_id) ==
    ProductCall("get_product_by_id", <<product_id>>, <<>>,
                get_product_by_id(product_rows, product_id))

CreateProduct(product_dto) ==
    /\ MaxId(product_rows) < MaxProducts
    /\ ProductCall("create_product", <<>>, <<product_dto>>,
                   create_product(product_rows, product_dto))

UpdateProduct(product_id, product_dto) ==
    ProductCall("update_product", <<product_id>>, <<product_dto>>,
                update_product(product_rows, product_id, product_dto))

DeleteProduct(product_id) ==
    ProductCall("delete_product", <<product_id>>, <<>>,
                delete_product(product_rows, product_id))

NextProducts ==
    \/ \E i \in ProductIds : GetProductById(i)
    \/ \E d \in ProductDTOs : CreateProduct(d)
    \/ \E i \in ProductIds, d \in ProductDTOs : UpdateProduct(i, d)
    \/ \E i \in ProductIds : DeleteProduct(i)

SpecProducts == InitProducts /\ [][NextProducts]_vars

\* ================================================================== claims
RowsBy(rows, r, role) == {i \in 1..Len(rows) : rows[i].req = r /\ rows[i].role = role}

Generated(r) == request[r].outcome /= <<>> /\ request[r].outcome[1].kind /= "error"

\* C1: when the generation call of a request fails, that request has persisted
\* neither its user turn nor its assistant turn: the step in which the call
\* fails leaves the store as it was, and the store holds no turn of the request.
C1_GenerationFailurePersistsNothing ==
    [][\A r \in Reqs :
        request'[r].error = "generation" =>
            /\ request[r].pc = "generating" => store' = store
            /\ request'[r].user_msg = <<>> /\ request'[r].assistant_msg = <<>>
            /\ RowsBy(store', r, "user") = {} /\ RowsBy(store', r, "assistant") = {}]_vars

C1_Witness ==
    \E r \in Reqs : request[r].error = "generation" /\ store /= <<>>

TurnsOf(rows) == [i \in 1..Len(rows) |-> <<rows[i].role, rows[i].message>>]

WrittenBy(rows, r) == SelectSeq(rows, LAMBDA m : m.req = r)

\* C3: a process_message call that has returned has written the user turn
\* (role user, the request's message) and then the assistant turn (role
\* assistant, the generated text), its result carries the session id, the
\* user text and that generated text, and when the session holds just these
\* two turns get_history returns them in that order.
C3_SuccessAddsUserThenAssistant ==
    \A r \in Reqs :
        request[r].pc = "done" =>
            LET rq == request[r]
                expected == << <<"user", rq.message>>, <<"assistant", rq.ai_response>> >>
            IN  /\ rq.user_msg /= <<>> /\ rq.assistant_msg /= <<>>
                /\ <<rq.user_msg[1].role, rq.user_msg[1].message>> = expected[1]
                /\ <<rq.assistant_msg[1].role, rq.assistant_msg[1].message>> = expected[2]
                /\ rq.response_dto[1].session_id = rq.session_id
                /\ rq.response_dto[1].user_message = rq.message
                /\ rq.response_dto[1].assistant_message = rq.ai_response
                /\ Len(WrittenBy(store, r)) = 2
                   /\ Len(SessionRows(store, rq.session_id)) = 2
                   => /\ TurnsOf(WrittenBy(store, r)) = expected
                      /\ \A h \in repo_get_session_history(store, rq.session_id, <<>>) :
                            TurnsOf(h) = expected

\* C7: a request invokes the generation backend at most once; exactly once
\* when the catalog read and the history read have succeeded, not at all
\* otherwise; and a request whose generation call failed has failed.
C7_GenerationInvokedOnce ==
    \A r \in Reqs :
        LET rq == request[r]
        IN  /\ rq.gen_calls <= 1
            /\ rq.pc \in {"idle", "returned"} => rq.gen_calls = 0
            /\ rq.error \in {"get_all", "get_recent_messages"} => rq.gen_calls = 0
            /\ rq.pc \in {"generating", "save_assistant", "done"}
                    => rq.gen_calls = 1
            /\ rq.pc = "failed" /\ rq.error \notin {"get_all", "get_recent_messages"}
                    => rq.gen_calls = 1
            /\ rq.outcome /= <<>> /\ rq.outcome[1].kind = "error"
                    => rq.pc = "failed" /\ rq.error = "generation"

C7_Witness ==
    \E r \in Reqs :
        /\ request[r].error = "generation"
        /\ request[r].gen_calls = 1
        /\ request[r].outcome /= <<>>

EmptyOrAbsent(outcome) == outcome.kind = "absent" \/ (outcome.kind = "text" /\ outcome.text = <<>>)

\* C8: when the backend succeeds with an empty or absent text, the generated
\* text is the placeholder, the request fails neither at generation nor at
\* validation, the assistant turn it persists has the placeholder as text, and
\* the returned result carries the placeholder.
C8_EmptyTextBecomesPlaceholder ==
    \A r \in Reqs :
        LET rq == request[r]
        IN  rq.outcome /= <<>> /\ EmptyOrAbsent(rq.outcome[1]) =>
                /\ rq.ai_response = Placeholder
                /\ rq.error \notin {"generation", "validation"}
                /\ \A i \in RowsBy(store, r, "assistant") : store[i].message = Placeholder
                /\ rq.pc = "done" =>
                    /\ rq.user_msg /= <<>>
                    /\ rq.assistant_msg /= <<>>
                    /\ rq.assistant_msg[1].message = Placeholder
                    /\ rq.response_dto[1].assistant_message = Placeholder

C8_Witness ==
    \E r \in Reqs :
        /\ request[r].pc = "done"
        /\ EmptyOrAbsent(request[r].outcome[1])
        /\ RowsBy(store, r, "user") /= {}
        /\ \E i \in RowsBy(store, r, "assistant") : store[i].message = Placeholder

\* the tokens of a prompt strictly between the tokens from and to
RECURSIVE IndexOf(_, _)
IndexOf(s, tok) ==
    IF s = <<>> THEN 0
    ELSE IF s[Len(s)] = tok /\ IndexOf(SubSeq(s, 1, Len(s) - 1), tok) = 0 THEN Len(s)
    ELSE IndexOf(SubSeq(s, 1, Len(s) - 1), tok)

SectionBetween(s, from, to) == SubSeq(s, IndexOf(s, from) + 1, IndexOf(s, to) - 1)

\* C9: when the session had no prior turns, the prior-conversation section of
\* the prompt handed to the backend is the "no prior messages" marker.
C9_EmptyTranscriptGetsMarker ==
    \A r \in Reqs :
        request[r].gen_calls > 0 /\ request[r].recent_history = <<>> =>
            SectionBetween(request[r].prompt, PromptContextHeader, PromptUserCue)
                = NoMessagesMarker

\* text.split(sep) for a one-token separator
RECURSIVE Split(_, _)
Split(s, sep) ==
    IF IndexOf(s, sep) = 0 THEN <<s>>
    ELSE <<SubSeq(s, 1, IndexOf(s, sep) - 1)>>
         \o Split(SubSeq(s, IndexOf(s, sep) + 1, Len(s)), sep)

TranscriptLine(m) == <<IF m.role = "user" THEN "Usuario" ELSE "Asistente", ": ">> \o m.message

\* C4: the context handed to generation holds min(k, 6) of the k turns the
\* session held when the history was read, in ascending timestamp order; no
\* turn left out is more recent than a turn kept, the turns left out are not
\* in the transcript of the prompt, and no turn of the request itself is in it.
C4_ContextIsLastSixBeforeCall ==
    [][\A r \in Reqs :
        request[r].pc = "idle" /\ request'[r].pc = "generating" =>
            LET rows == SessionRows(store, request'[r].session_id)
                ctx == get_recent_messages(request'[r].recent_history, DefaultMaxMessages)
                kept == {ctx[i].id : i \in 1..Len(ctx)}
                transcript == Split(SectionBetween(request'[r].prompt, PromptContextHeader,
                                                   PromptUserCue), "\n")
            IN  /\ Len(ctx) = Min(Len(rows), 6)
                /\ Cardinality(kept) = Len(ctx)
                /\ \A i \in 1..Len(ctx) : \E j \in 1..Len(rows) : model_to_entity(rows[j]) = ctx[i]
                /\ \A i, j \in 1..Len(ctx) : i < j => ctx[i].timestamp <= ctx[j].timestamp
                /\ \A j \in 1..Len(rows) :
                      rows[j].id \notin kept =>
                          /\ \A i \in 1..Len(ctx) : rows[j].timestamp <= ctx[i].timestamp
                          /\ \A l \in 1..Len(transcript) : transcript[l] /= TranscriptLine(rows[j])
                /\ \A i \in 1..Len(ctx) : transcript[i] = TranscriptLine(ctx[i])
                /\ \A j \in 1..Len(store) : store[j].req /= r]_vars

C4_Witness ==
    \E r \in Reqs :
        /\ request[r].pc = "generating"
        /\ Len(request[r].recent_history) = 6
        /\ Len(SessionRows(store, request[r].session_id)) > 6

\* C5: the recent window has length min(len(T), n) when n >= 0 and length 0
\* when n <= 0.
C5_WindowLength ==
    recent /= <<>> =>
        Len(recent[1]) = IF max_messages <= 0 THEN 0 ELSE Min(Len(messages), max_messages)

\* C6: the recent window is sorted by timestamp ascending whatever the order
\* of the input, and the window of an empty input is empty.
C6_WindowSortedAscending ==
    recent /= <<>> =>
        /\ \A i, j \in 1..Len(recent[1]) : i < j => recent[1][i].timestamp <= recent[1][j].timestamp
        /\ messages = <<>> => recent[1] = <<>>

C6_Witness ==
    /\ recent /= <<>>
    /\ Len(recent[1]) >= 2
    /\ max_messages >= Len(messages)
    /\ \E i \in 1..(Len(messages) - 1) : messages[i].timestamp > messages[i + 1].timestamp

\* the text of a price with two decimals: the nearest number of cents
IsTwoDecimalsOf(text, price) ==
    \E c \in 0..((price \div 10) + 1) :
        /\ 10 * c - 5 <= price /\ price < 10 * c + 5
        /\ text = <<ToString(c \div 100), ".", ToString((c % 100) \div 10), ToString(c % 10)>>

\* C10: the rendering of an empty catalog is the "no products" marker; of any
\* other catalog it has one line per product, in catalog order, the line of a
\* product being "- name | brand | $price | Stock: stock".
C10_CatalogRendering ==
    products_text /= <<>> =>
        LET lines == Split(products_text[1], "\n")
        IN  IF products = <<>> THEN products_text[1] = NoProductsMarker
            ELSE /\ Len(lines) = Len(products)
                 /\ \A i \in 1..Len(products) :
                      LET p == products[i]
                          n == Len(p.name)
                          b == Len(p.brand)
                          l == lines[i]
                      IN  p.attrs = ProductAttrs =>
                            /\ Len(l) = n + b + 9
                            /\ l[1] = "- "
                            /\ SubSeq(l, 2, n + 1) = p.name
                            /\ l[n + 2] = " | "
                            /\ SubSeq(l, n + 3, n + b + 2) = p.brand
                            /\ l[n + b + 3] = " | $"
                            /\ IsTwoDecimalsOf(SubSeq(l, n + b + 4, n + b + 7), p.price)
                            /\ l[n + b + 8] = " | Stock: "
                            /\ l[n + b + 9] = ToString(p.stock)

C10_Witness ==
    /\ products_text /= <<>>
    /\ Len(products) = 2
    /\ products[1] /= products[2]
    /\ products[1].attrs = ProductAttrs /\ products[2].attrs = ProductAttrs

ValidRoles == {"user", "assistant"}

\* C11: a ChatMessage construction gives an entity only when the role is
\* "user" or "assistant"; with any other role it raises ValueError and gives no
\* entity; and on an entity is_from_user holds exactly for role "user" and
\* is_from_assistant exactly for role "assistant".
C11_RoleIsUserOrAssistant ==
    turn /= <<>> =>
        LET a == turn_args[1]
            t == turn[1]
        IN  /\ t.entity /= <<>> => a.role \in ValidRoles
            /\ a.role \notin ValidRoles =>
                    /\ t.entity = <<>>
                    /\ t.raised /= <<>>
                    /\ t.raised[1].type = "ValueError"
            /\ t.entity /= <<>> =>
                    /\ t.entity[1].role = a.role
                    /\ is_from_user(t.entity[1]) <=> a.role = "user"
                    /\ is_from_assistant(t.entity[1]) <=> a.role = "assistant"
                    /\ is_from_user(t.entity[1]) /= is_from_assistant(t.entity[1])

C11_Witness ==
    /\ turn /= <<>>
    /\ turn[1].entity = <<>>
    /\ turn_args[1].role = "system"
    /\ turn_args[1].session_id = <<"a">>
    /\ turn_args[1].message = <<"a", " ">>

EmptyOrWhitespace(text) == \A i \in 1..Len(text) : text[i] \in {" ", "\n", "\t"}

\* C12: a ChatMessage construction raises ValueError and gives no entity
\* whenever the session_id is empty or whitespace-only or the message is empty
\* or whitespace-only, whatever the role.
C12_BlankSessionOrTextFails ==
    turn /= <<>> =>
        LET a == turn_args[1]
            t == turn[1]
        IN  EmptyOrWhitespace(a.session_id) \/ EmptyOrWhitespace(a.message) =>
                /\ t.entity = <<>>
                /\ t.raised /= <<>>
                /\ t.raised[1].type = "ValueError"

C12_Witness ==
    /\ turn /= <<>>
    /\ turn[1].raised /= <<>>
    /\ turn_args[1].role = "user"
    /\ turn_args[1].session_id = <<"a">>
    /\ turn_args[1].message = <<" ", "\n">>

\* C13: get_history with a limit returns at most limit turns (none for a
\* limit below 1), the most recent ones of the session, oldest first; without
\* a limit it returns all the turns of the session, oldest first.
C13_LimitGivesMostRecent ==
    [][history' /= history /\ history'[1].raised = <<>> =>
        LET h == history'[1]
            rows == SessionRows(store, h.session_id)
            res == h.result
            ids == {res[i].id : i \in 1..Len(res)}
        IN  /\ Cardinality(ids) = Len(res)
            /\ \A i \in 1..Len(res) : \E j \in 1..Len(rows) :
                    ChatHistoryDTO(model_to_entity(rows[j])) = res[i]
            /\ \A i, j \in 1..Len(res) : i < j => res[i].timestamp <= res[j].timestamp
            /\ h.limit = <<>> => Len(res) = Len(rows)
            /\ h.limit /= <<>> =>
                    /\ Len(res) <= Max(h.limit[1], 0)
                    /\ Len(res) = Min(Len(rows), Max(h.limit[1], 0))
                    /\ \A j \in 1..Len(rows) : rows[j].id \notin ids =>
                            \A i \in 1..Len(res) : rows[j].timestamp <= res[i].timestamp]_vars

\* C14: clear_history returns the number of turns the session held and leaves
\* the session without turns and the other sessions as they were; on a session
\* without turns, and so when called again right after, it returns 0 and
\* changes nothing.
C14_ClearReturnsCountAndIsIdempotent ==
    [][Len(deleted') > Len(deleted) /\ deleted'[Len(deleted')].raised = <<>> =>
        LET d == deleted'[Len(deleted')]
        IN  /\ d.count = <<Len(SessionRows(store, d.session_id))>>
            /\ SessionRows(store', d.session_id) = <<>>
            /\ \A s \in Sessions \ {d.session_id} :
                    SessionRows(store', s) = SessionRows(store, s)
            /\ SessionRows(store, d.session_id) = <<>> => d.count = <<0>> /\ store' = store
            /\ /\ deleted /= <<>>
               /\ deleted[Len(deleted)].raised = <<>>
               /\ deleted[Len(deleted)].session_id = d.session_id
               => d.count = <<0>> /\ store' = store]_vars

C14_Witness ==
    /\ Len(deleted) = 2
    /\ deleted[1].session_id = deleted[2].session_id
    /\ deleted[1].count = <<2>>
    /\ deleted[2].count = <<0>>
    /\ store /= <<>>

\* part occurs in text
Contains(text, part) ==
    \E i \in 1..(Len(text) - Len(part) + 1) : SubSeq(text, i, i + Len(part) - 1) = part

\* the failure cause has reached the caller as a ChatServiceError whose message
\* holds the message of the cause
Surfaced(cause, raised) ==
    /\ raised /= <<>>
    /\ raised[1].type = "ChatServiceError"
    /\ Contains(raised[1].message, cause[1].message)

\* C15: whatever fails inside process_message, get_history or clear_history
\* (a validation, the generation, a repository call), the caller gets a
\* ChatServiceError and no other exception type, and the message of the cause
\* is part of its message; a call that did not fail raises nothing.
C15_FailuresSurfaceAsChatServiceError ==
    /\ \A r \in Reqs :
        LET rq == request[r]
        IN  /\ rq.pc = "failed" => rq.cause /= <<>> /\ Surfaced(rq.cause, rq.raised)
            /\ rq.error = "generation" => Contains(rq.raised[1].message, rq.outcome[1].text)
            /\ rq.error = "validation" => rq.cause[1].type = "ValueError"
            /\ rq.pc /= "failed" => rq.cause = <<>> /\ rq.raised = <<>>
    /\ history /= <<>> =>
        IF history[1].cause /= <<>>
        THEN Surfaced(history[1].cause, history[1].raised)
        ELSE history[1].raised = <<>>
    /\ \A i \in 1..Len(deleted) :
        IF deleted[i].cause /= <<>>
        THEN Surfaced(deleted[i].cause, deleted[i].raised) /\ deleted[i].count = <<>>
        ELSE deleted[i].raised = <<>> /\ deleted[i].count /= <<>>

C15_Witness ==
    /\ request[1].pc = "failed"
    /\ request[1].error = "validation"
    /\ history /= <<>> /\ history[1].raised /= <<>>
    /\ \E i \in 1..Len(deleted) : deleted[i].raised /= <<>>

\* C16: requests of one session are not serialized: while a request is
\* awaiting the backend, having read the history and written nothing, the next
\* request can start on the same session and read the history, and a request
\* that awaits the backend can go on to write whatever the others are doing;
\* so a request can complete while an earlier one of its session still holds
\* a context read before its turns were written.
C16_RequestsOfASessionInterleave ==
    \A r1, r2 \in Reqs :
        /\ r1 /= r2
        /\ request[r1].pc = "generating"
        /\ running = 0
        => /\ /\ request[r2].pc = "idle"
              /\ \A q \in Reqs : q < r2 => request[q].pc /= "idle"
              => \A m \in UserMessages : ENABLED ProcessMessage(r2, request[r1].session_id, m)
           /\ request[r2].pc = "generating"
              => \A o \in BackendOutcomes :
                    o.kind /= "error" => ENABLED GenerateContent(r2, o)

C16_Witness ==
    /\ request[1].pc = "done"
    /\ request[2].pc = "returned"
    /\ request[1].recent_history = <<>>
    /\ deleted = <<>>
    /\ Len(store) = 4
    /\ \A i \in 1..4 : store[i].session_id = request[1].session_id
    /\ store[1].req = 2 /\ store[2].req = 2 /\ store[3].req = 1 /\ store[4].req = 1

RowById(rows, id) == CHOOSE i \in 1..Len(rows) : rows[i].id = id

\* what the store gave back is the turn that was saved, with a rowid
SameTurnWithId(fetched, saved) ==
    /\ fetched.session_id = saved.session_id
    /\ fetched.role = saved.role
    /\ fetched.message = saved.message
    /\ fetched.timestamp = saved.timestamp
    /\ fetched.tzinfo = saved.tzinfo
    /\ saved.id = <<>>
    /\ fetched.id \in Nat \ {0}

\* C18: a turn saved to the store and then fetched with get_history has the
\* session_id, role, text and timestamp of the turn that was saved, and an id
\* given by the store.
C18_SavedTurnComesBackUnchanged ==
    [][history' /= history /\ history'[1].raised = <<>> =>
        \A i \in 1..Len(history'[1].entities) :
            LET e == history'[1].entities[i]
                row == store[RowById(store, e.id)]
                rq == request[row.req]
            IN  /\ row.role = "user" /\ rq.user_msg /= <<>>
                        => SameTurnWithId(e, rq.user_msg[1])
                /\ row.role = "assistant" /\ rq.assistant_msg /= <<>>
                        => SameTurnWithId(e, rq.assistant_msg[1])]_vars

\* C19: every row of the chat_memory table has role "user" or "assistant", a
\* session_id that is not empty or whitespace-only and a message that is not
\* empty or whitespace-only, whatever calls have been made.
C19_StoredTurnsAreValid ==
    \A i \in 1..Len(store) :
        /\ store[i].role \in ValidRoles
        /\ ~EmptyOrWhitespace(store[i].session_id)
        /\ ~EmptyOrWhitespace(store[i].message)

C19_Witness ==
    /\ request[1].pc = "failed"
    /\ request[1].error = "validation"
    /\ request[1].outcome[1].text = <<" ">>
    /\ RowsBy(store, 1, "user") /= {}
    /\ history /= <<>> /\ history[1].result /= <<>>
    /\ deleted /= <<>>

\* C20: the rendering of a context is one line per turn of its recent window,
\* in the order of the window, the line of a turn being "Usuario" or
\* "Asistente" by its role, then ": ", then its text; the lines are separated
\* by a newline with none after the last, and an empty window gives "".
C20_OneLabelledLinePerTurn ==
    recent /= <<>> /\ rendered /= <<>> =>
        LET window == recent[1]
            text == rendered[1]
            lines == Split(text, "\n")
        IN  IF window = <<>> THEN text = <<>>
            ELSE /\ Len(lines) = Len(window)
                 /\ \A i \in 1..Len(window) :
                        LET l == lines[i]
                            n == Len(window[i].message)
                        IN  /\ Len(l) = n + 2
                            /\ l[1] = (IF window[i].role = "user" THEN "Usuario" ELSE "Asistente")
                            /\ l[2] = ": "
                            /\ SubSeq(l, 3, n + 2) = window[i].message
                 /\ text[Len(text)] /= "\n"

C20_Witness ==
    /\ recent /= <<>> /\ rendered /= <<>>
    /\ Len(recent[1]) = 3
    /\ recent[1][1].role = "assistant"
    /\ recent[1][2].role = "user"
    /\ messages /= recent[1]

CallsOf(op) == {i \in 1..Len(stock_calls) : stock_calls[i].op = op}

IsValueError(raised) == raised /= <<>> /\ raised[1].type = "ValueError"

\* C21: reduce_stock(q) takes exactly q off the stock when 0 < q <= stock;
\* when q <= 0 or q > stock it raises ValueError and the stock is as before.
C21_ReduceStockExactOrRefused ==
    /\ \A i \in CallsOf("reduce_stock") :
         LET c == stock_calls[i]
         IN  /\ (0 < c.quantity /\ c.quantity <= c.before)
                    => (c.raised = <<>> /\ c.after = c.before - c.quantity)
             /\ (c.quantity <= 0 \/ c.quantity > c.before)
                    => (IsValueError(c.raised) /\ c.after = c.before)
    /\ stock_calls /= <<>>
         => product[1].entity[1].stock = stock_calls[Len(stock_calls)].after

\* a stock of 3 reduced by 2, then a further reduction by 2 refused
C21_Witness ==
    /\ Len(stock_calls) = 2
    /\ stock_calls[1].op = "reduce_stock" /\ stock_calls[2].op = "reduce_stock"
    /\ stock_calls[1].before = 3 /\ stock_calls[1].quantity = 2
    /\ stock_calls[1].raised = <<>>
    /\ stock_calls[2].quantity = 2 /\ stock_calls[2].raised /= <<>>
    /\ product[1].entity[1].stock = 1

\* C30: a Product that was constructed has stock >= 0 after any sequence of
\* reduce_stock / increase_stock calls; increase_stock(q) adds exactly q when
\* q > 0 and otherwise raises ValueError with the stock as before;
\* is_available() is true exactly when stock > 0.
C30_StockNeverNegative ==
    /\ product[1].entity /= <<>> => product[1].entity[1].stock >= 0
    /\ \A i \in 1..Len(stock_calls) : stock_calls[i].before >= 0 /\ stock_calls[i].after >= 0
    /\ \A i \in CallsOf("increase_stock") :
         LET c == stock_calls[i]
         IN  IF c.quantity > 0
             THEN c.raised = <<>> /\ c.after = c.before + c.quantity
             ELSE IsValueError(c.raised) /\ c.after = c.before
    /\ \A i \in CallsOf("is_available") :
         stock_calls[i].result = <<stock_calls[i].before > 0>>

\* a product without stock refuses increase_stock(0), and is_available() is
\* then false
C30_Witness ==
    /\ Len(stock_calls) = 2
    /\ stock_calls[1].op = "increase_stock" /\ stock_calls[1].quantity = 0
    /\ stock_calls[1].before = 0 /\ stock_calls[1].raised /= <<>>
    /\ stock_calls[2].op = "is_available" /\ stock_calls[2].result = <<FALSE>>
    /\ product[1].entity[1].stock = 0

IdsOf(rows) == {rows[i].id : i \in 1..Len(rows)}

IsNotFound(raised) == raised /= <<>> /\ raised[1].type = "ProductNotFoundError"

\* C22: get_product_by_id, update_product and delete_product called with an
\* id that no row of the table has end in ProductNotFoundError, and the
\* table is as it was before the call.
C22_MissingIdIsNotFound ==
    \A i \in 1..Len(product_call) :
        LET c == product_call[i]
        IN  (/\ c.op \in {"get_product_by_id", "update_product", "delete_product"}
             /\ c.product_id[1] \notin IdsOf(c.before))
                => /\ IsNotFound(c.raised)
                   /\ c.result = <<>>
                   /\ product_rows = c.before

\* update_product(2, dto) with valid data on a table that holds only product 1
C22_Witness ==
    /\ product_call /= <<>>
    /\ product_call[1].op = "update_product"
    /\ product_call[1].product_id = <<2>>
    /\ product_call[1].product_dto[1].name = <<"P", "e", "g">>
    /\ IdsOf(product_call[1].before) = {1}
    /\ IsNotFound(product_call[1].raised)
    /\ product_rows = product_call[1].before

\* C23: create_product returns a product whose id is assigned (not None) and
\* that get_product_by_id gives back; delete_product of a product of the table
\* returns True, and get_product_by_id of that id then ends in
\* ProductNotFoundError.
C23_CreatedIsFoundDeletedIsNot ==
    \A i \in 1..Len(product_call) :
        LET c == product_call[i]
        IN  /\ (c.op = "create_product" /\ c.raised = <<>>)
                => /\ c.result /= <<>>
                   /\ c.result[1].id /= <<>>
                   /\ c.result[1].id[1] \notin IdsOf(c.before)
                   /\ get_product_by_id(product_rows, c.result[1].id[1]).raised = <<>>
                   /\ get_product_by_id(product_rows, c.result[1].id[1]).result = c.result
                   /\ c.result[1].name = c.product_dto[1].name
                   /\ c.result[1].stock = c.product_dto[1].stock
            /\ (c.op = "delete_product" /\ c.raised = <<>>)
                => /\ c.result = <<TRUE>>
                   /\ IsNotFound(get_product_by_id(product_rows, c.product_id[1]).raised)
                   /\ IdsOf(product_rows) = IdsOf(c.before) \ {c.product_id[1]}

\* two products created, the second one deleted
C23_Witness ==
    /\ product_call /= <<>>
    /\ product_call[1].op = "delete_product"
    /\ product_call[1].product_id = <<2>>
    /\ product_call[1].result = <<TRUE>>
    /\ IdsOf(product_call[1].before) = {1, 2}
    /\ IdsOf(product_rows) = {1}

\* the positions of the last n turns of a sequence of length len
TrailingPositions(len, n) == {i \in 1..len : i > len - n}

IdsIn(w) == {w[i].id : i \in 1..Len(w)}

\* C24: for a bound n >= 1 the recent window holds exactly the turns at the
\* last min(len, n) positions of the input, put in ascending timestamp order:
\* the positionally last turns, whatever their timestamps.
C24_WindowIsTrailingSliceSorted ==
    (recent /= <<>> /\ max_messages >= 1)
        => LET w == recent[1]
           IN  /\ Len(w) = Cardinality(TrailingPositions(Len(messages), max_messages))
               /\ IdsIn(w) = TrailingPositions(Len(messages), max_messages)
               /\ \A i \in 1..Len(w) : w[i] = messages[w[i].id]
               /\ \A i \in 1..(Len(w) - 1) : w[i].timestamp <= w[i + 1].timestamp

\* three turns with timestamps 3, 2, 1 and a bound of 2: the window holds the
\* turns at positions 3 and 2, and the turn with the greatest timestamp is out
C24_Witness ==
    /\ recent /= <<>>
    /\ max_messages = 2
    /\ Len(messages) = 3
    /\ messages[1].timestamp = 3 /\ messages[2].timestamp = 2 /\ messages[3].timestamp = 1
    /\ Len(recent[1]) = 2
    /\ recent[1][1].id = 3 /\ recent[1][2].id = 2

\* C25: turns of the window with equal timestamps are in the order they had
\* in the input slice (ids are input positions).
C25_TiesKeepSliceOrder ==
    recent /= <<>>
        => LET w == recent[1]
           IN  \A i, j \in 1..Len(w) :
                   (i < j /\ w[i].timestamp = w[j].timestamp) => w[i].id < w[j].id

\* timestamps 2, 1, 1: the sort moves the first turn to the end and the two
\* tied turns stay in input order
C25_Witness ==
    /\ recent /= <<>>
    /\ Len(messages) = 3 /\ max_messages = 3
    /\ messages[1].timestamp = 2 /\ messages[2].timestamp = 1 /\ messages[3].timestamp = 1
    /\ recent[1][1].id = 2 /\ recent[1][2].id = 3 /\ recent[1][3].id = 1

RolesOf(rows) == [i \in 1..Len(rows) |-> rows[i].role]

\* C26: a process_message request goes through its steps in one order: the
\* catalog and the recent history are read, the backend is invoked once, the
\* user turn and then the assistant turn are written.  A request whose
\* catalog read or history read failed has not invoked the backend, has
\* written nothing, and raises ChatServiceError.
C26_LinearControlFlow ==
    \A r \in Reqs :
        LET rq == request[r]
            mine == RolesOf(WrittenBy(store, r))
        IN  /\ rq.gen_calls <= 1
            /\ rq.pc = "idle" => (rq.gen_calls = 0 /\ mine = <<>>)
            /\ rq.pc = "generating"
                => (rq.gen_calls = 1 /\ rq.products = catalog /\ mine = <<>>)
            /\ rq.pc = "save_assistant" => (rq.gen_calls = 1 /\ mine = <<"user">>)
            /\ rq.pc = "done" => (rq.gen_calls = 1 /\ mine = <<"user", "assistant">>)
            /\ (rq.pc = "failed" /\ rq.error \in {"get_all", "get_recent_messages"})
                => /\ rq.gen_calls = 0
                   /\ rq.outcome = <<>>
                   /\ mine = <<>>
                   /\ rq.raised /= <<>>
                   /\ rq.raised[1].type = "ChatServiceError"

\* the history read of the second request fails on a store that holds the two
\* turns of the first
C26_Witness ==
    /\ request[1].pc = "returned"
    /\ RolesOf(WrittenBy(store, 1)) = <<"user", "assistant">>
    /\ request[2].pc = "failed"
    /\ request[2].error = "get_recent_messages"
    /\ request[2].gen_calls = 0
    /\ Len(store) = 2

\* C27: a process_message call that ends in ChatServiceError leaves the
\* session history as it was: no row of the failed request is in the store,
\* and no request that is over has a user turn there without its assistant
\* turn.
C27_FailedCallWritesNothing ==
    \A r \in Reqs :
        /\ request[r].pc = "failed" => WrittenBy(store, r) = <<>>
        /\ request[r].pc = "returned"
            => RolesOf(WrittenBy(store, r)) \in {<<>>, <<"user", "assistant">>}

\* C28: with requests that give up the event loop only at the backend call,
\* no write of another request comes between the two writes of a request: a
\* request that has written its user turn holds the loop until it is over and
\* the row it wrote is still the last one, and every assistant turn in the
\* store comes right after the user turn of its own request.
C28_WritesOfARequestAreAdjacent ==
    /\ \A i \in 1..Len(store) :
         store[i].role = "assistant"
            => /\ i > 1
               /\ store[i - 1].req = store[i].req
               /\ store[i - 1].role = "user"
    /\ \A r \in Reqs :
         request[r].pc = "save_assistant"
            => /\ running = r
               /\ store /= <<>>
               /\ store[Len(store)].req = r
               /\ store[Len(store)].role = "user"
    /\ running = 0
         => \A r \in Reqs :
              RolesOf(WrittenBy(store, r)) \in {<<>>, <<"user">>, <<"user", "assistant">>}

\* two requests of one session, both suspended at the backend call; the
\* second resumes first, and each pair of turns is together in the store
C28_Witness ==
    /\ running = 0
    /\ Len(store) = 4
    /\ store[1].req = 2 /\ store[2].req = 2
    /\ store[3].req = 1 /\ store[4].req = 1
    /\ store[1].session_id = store[3].session_id
    /\ store[2].role = "assistant" /\ store[4].role = "assistant"
    /\ store[3].timestamp = store[1].timestamp

TurnsOfSession(rows, t) == SelectSeq(rows, LAMBDA m : m.session_id = t)

\* the session named by the process_message or clear_session_history call
\* that takes the step (none in a step of get_session_history)
ActingSessions ==
    (IF deleted' /= deleted THEN {deleted'[Len(deleted')].session_id} ELSE {})
    \cup {request[r].session_id : r \in {q \in Reqs : request'[q] /= request[q]}}
    \cup {request'[r].session_id : r \in {q \in Reqs : request'[q] /= request[q]}}

\* a step of a call on session s leaves the turns of every other session as
\* they were, rowids included
OtherSessionsKept ==
    \A t \in Sessions :
        t \notin ActingSessions => TurnsOfSession(store', t) = TurnsOfSession(store, t)

\* after the step, what a request has read as its context and what the last
\* get_session_history has fetched are turns of the session asked for
OnlyOwnSessionRead ==
    /\ \A r \in Reqs : \A i \in 1..Len(request'[r].recent_history) :
            request'[r].recent_history[i].session_id = request'[r].session_id
    /\ history' /= <<>>
        => \A i \in 1..Len(history'[1].entities) :
                history'[1].entities[i].session_id = history'[1].session_id

\* C29: process_message and clear_session_history on a session never add,
\* remove or change a turn of another session, and the context window and the
\* get_session_history result of a session hold turns of that session only.
C29_SessionIsolation == [][OtherSessionsKept /\ OnlyOwnSessionRead]_vars

\* session s1 was cleared of its turns, a request on s1 then wrote two, a
\* get_session_history of s1 returned them, and the two turns of s2 are there
C29_Witness ==
    /\ deleted /= <<>>
    /\ deleted[1].session_id = <<"s", "1">>
    /\ deleted[1].count = <<2>>
    /\ request[1].pc = "done"
    /\ request[1].session_id = <<"s", "1">>
    /\ history /= <<>>
    /\ history[1].session_id = <<"s", "1">>
    /\ Len(history[1].entities) = 2
    /\ Len(TurnsOfSession(store, <<"s", "2">>)) = 2
    /\ Len(store) = 4

====
